---------------------------- MODULE Spec2Model ----------------------------
(***************************************************************************)
(* Model of main.py: download_bilibili_video, the function that turns a    *)
(* download request into a command line for the yutto downloader, makes    *)
(* sure the output directory exists, runs the command as a child process   *)
(* and prints whether it succeeded.                                        *)
(*                                                                         *)
(* Python values are tagged records (None, int, str, bool), so that        *)
(* str(), truthiness and "is not None" are modelled by what they do.       *)
(* The command is a sequence of plain strings, as in the code.  A path is  *)
(* the sequence of its components; DirStr gives the string the caller      *)
(* wrote.  The messages of the code are Chinese; the model keeps an ASCII  *)
(* rendering of each.                                                      *)
(***************************************************************************)
EXTENDS Integers, Sequences, FiniteSets, TLC

VARIABLES
    pc,          \* where the current invocation stands
    url,         \* argument url
    output_dir,  \* argument output_dir (path components)
    batch,       \* argument batch
    episodes,    \* argument episodes (None or a str)
    kwargs,      \* **kwargs, in the order the caller wrote them
    cmd,         \* local cmd
    stdout,      \* lines printed by the current invocation
    fs,          \* directories that exist
    environ,     \* os.environ of the calling process
    child,       \* the child process of the current invocation
    ret,         \* what the invocation returned
    log          \* history: the commands built so far, per watched request

vars == <<pc, url, output_dir, batch, episodes, kwargs, cmd, stdout, fs,
          environ, child, ret, log>>

---------------------------------------------------------------------------
(* Python values *)

None == [t |-> "none"]
PyInt(n) == [t |-> "int", i |-> n]
PyStr(s) == [t |-> "str", s |-> s]
PyBool(b) == [t |-> "bool", b |-> b]

\* bool(v)
Truthy(v) ==
    CASE v.t = "none" -> FALSE
      [] v.t = "int"  -> v.i # 0
      [] v.t = "str"  -> v.s # ""
      [] v.t = "bool" -> v.b

Digit(d) == <<"0", "1", "2", "3", "4", "5", "6", "7", "8", "9">>[d + 1]

RECURSIVE NatStr(_)
NatStr(n) == IF n < 10 THEN Digit(n) ELSE NatStr(n \div 10) \o Digit(n % 10)

\* str(n) for an int
IntStr(n) == IF n < 0 THEN "-" \o NatStr(-n) ELSE NatStr(n)

\* str(v)
Str(v) ==
    CASE v.t = "none" -> "None"
      [] v.t = "int"  -> IntStr(v.i)
      [] v.t = "str"  -> v.s
      [] v.t = "bool" -> IF v.b THEN "True" ELSE "False"

\* sep.join(parts)
RECURSIVE Join(_, _)
Join(parts, sep) ==
    IF parts = <<>> THEN ""
    ELSE IF Len(parts) = 1 THEN parts[1]
    ELSE parts[1] \o sep \o Join(Tail(parts), sep)

---------------------------------------------------------------------------
(* **kwargs: a sequence of <<name, value>> with distinct names *)

KwHas(kw, k) == \E j \in 1..Len(kw) : kw[j][1] = k

KwGet(kw, k) == kw[CHOOSE j \in 1..Len(kw) : kw[j][1] = k][2]

\* kwargs.get(k, default)
KwGetDefault(kw, k, default) == IF KwHas(kw, k) THEN KwGet(kw, k) ELSE default

---------------------------------------------------------------------------
(* Program constants *)

\* sys.executable
PythonExe == "python"

\* str(src_path)
SrcPath == "/repo/src"

\* param_mapping, in the order of the dict literal
ParamMapping ==
    << <<"video_quality", "--video-quality">>,
       <<"audio_quality", "--audio-quality">>,
       <<"num_workers", "--num-workers">>,
       <<"danmaku_format", "--danmaku-format">>,
       <<"proxy", "--proxy">>,
       <<"sessdata", "--sessdata">>,
       <<"vcodec", "--vcodec">>,
       <<"acodec", "--acodec">> >>

MsgStart == "start download: "
MsgDir == "download dir: "
MsgBatch == "batch mode: "
MsgEnabled == "enabled"
MsgDisabled == "disabled"
MsgEpisodes == "episodes: "
MsgCommand == "command: "
MsgDone == "download finished!"
MsgFailed == "download failed, return code: "

---------------------------------------------------------------------------
(* The file system: Path(output_dir).mkdir(parents=True, exist_ok=True) *)

DirStr(p) == Join(p, "/")

\* the path and its ancestors, without the current directory
Prefixes(p) == { SubSeq(p, 1, n) : n \in 1..Len(p) }

\* The outcomes of Path(p).mkdir(parents=True, exist_ok=exist_ok): the
\* directory and its missing parents are created, or the creation of a
\* missing component fails after the shorter ones were made.  A directory
\* that exists is an error unless exist_ok.
MkdirOutcomes(dirs, p, exist_ok) ==
    IF p \in dirs
    THEN { [ok |-> exist_ok, fs |-> dirs] }
    ELSE { [ok |-> TRUE, fs |-> dirs \cup Prefixes(p)] }
         \cup { [ok |-> FALSE, fs |-> dirs \cup Prefixes(SubSeq(p, 1, n - 1))] :
                  n \in { m \in 1..Len(p) : SubSeq(p, 1, m) \notin dirs } }

\* mutant: mkdir(parents=True) without exist_ok
MkdirOutputDirStrict(dirs, p) == MkdirOutcomes(dirs, p, FALSE)

MkdirOutputDir(dirs, p) == MkdirOutcomes(dirs, p, TRUE)

---------------------------------------------------------------------------
(* Building the command *)

BaseCmd(u, dir) == <<PythonExe, "-m", "yutto", u, "--dir", dir>>

AddBatch(c, b) == IF b THEN Append(c, "--batch") ELSE c

\* mutant: "if episodes is not None" in place of "if episodes"
AddEpisodesNotNone(c, ep) ==
    IF ep # None THEN c \o <<"--episodes", ep.s>> ELSE c

AddEpisodes(c, ep) == IF Truthy(ep) THEN c \o <<"--episodes", ep.s>> ELSE c

\* mutant: "if kwargs.get(param)" in place of the test against None
AddParamIfTruthy(c, kw, param, cmd_param) ==
    IF KwHas(kw, param) /\ Truthy(KwGet(kw, param))
    THEN Append(Append(c, cmd_param), Str(KwGet(kw, param)))
    ELSE c

\* one turn of the loop over param_mapping.items()
AddParam(c, kw, param, cmd_param) ==
    IF KwHas(kw, param) /\ KwGet(kw, param) # None
    THEN Append(Append(c, cmd_param), Str(KwGet(kw, param)))
    ELSE c

RECURSIVE MappedFrom(_, _, _)
MappedFrom(c, kw, j) ==
    IF j > Len(ParamMapping) THEN c
    ELSE MappedFrom(AddParam(c, kw, ParamMapping[j][1], ParamMapping[j][2]),
                    kw, j + 1)

\* mutant: the loop runs over kwargs, in the caller's order
RECURSIVE MappedInCallerOrder(_, _, _)
MappedInCallerOrder(c, kw, j) ==
    IF j > Len(kw) THEN c
    ELSE LET hits == { m \in 1..Len(ParamMapping) : ParamMapping[m][1] = kw[j][1] }
         IN  MappedInCallerOrder(
                 IF hits # {} /\ kw[j][2] # None
                 THEN c \o <<ParamMapping[CHOOSE m \in hits : TRUE][2], Str(kw[j][2])>>
                 ELSE c,
                 kw, j + 1)

AddMappedCallerOrder(c, kw) == MappedInCallerOrder(c, kw, 1)

AddMapped(c, kw) == MappedFrom(c, kw, 1)

\* mutant: --overwrite whenever the key is given, whatever its value
AddOverwriteIfPresent(c, kw) ==
    IF KwHas(kw, "overwrite") THEN Append(c, "--overwrite") ELSE c

\* mutant: --overwrite is left out once the output directory holds a
\* directory from an earlier download
AddOverwriteUnlessPopulated(c, kw) ==
    IF /\ Truthy(KwGetDefault(kw, "overwrite", PyBool(FALSE)))
       /\ ~ \E d \in fs : Len(d) > Len(output_dir)
                          /\ SubSeq(d, 1, Len(output_dir)) = output_dir
    THEN Append(c, "--overwrite")
    ELSE c

AddOverwrite(c, kw) ==
    IF Truthy(KwGetDefault(kw, "overwrite", PyBool(FALSE)))
    THEN Append(c, "--overwrite")
    ELSE c

\* mutant: every other keyword is passed on as --<name> <value>
RECURSIVE PassOn(_, _, _)
PassOn(c, kw, j) ==
    IF j > Len(kw) THEN c
    ELSE PassOn(IF /\ kw[j][1] # "overwrite"
                   /\ \A m \in 1..Len(ParamMapping) : ParamMapping[m][1] # kw[j][1]
                THEN c \o <<"--" \o kw[j][1], Str(kw[j][2])>>
                ELSE c,
                kw, j + 1)

BuildCmdPassUnknown(u, dir, b, ep, kw) ==
    AddOverwrite(PassOn(AddMapped(AddEpisodes(AddBatch(BaseCmd(u, dir), b), ep), kw),
                        kw, 1), kw)

BuildCmd(u, dir, b, ep, kw) ==
    AddOverwrite(AddMapped(AddEpisodes(AddBatch(BaseCmd(u, dir), b), ep), kw), kw)

\* the lines printed before the child is started
Progress(u, dir, b, ep, c) ==
    << MsgStart \o u, MsgDir \o dir,
       MsgBatch \o (IF b THEN MsgEnabled ELSE MsgDisabled) >>
    \o (IF Truthy(ep) THEN << MsgEpisodes \o ep.s >> ELSE <<>>)
    \o << MsgCommand \o Join(c, " ") >>

---------------------------------------------------------------------------
(* The environment of the child and the result *)

\* mutant: env = os.environ, without the copy
ChildEnvInPlace(os_environ) ==
    LET old == IF "PYTHONPATH" \in DOMAIN os_environ
               THEN os_environ["PYTHONPATH"] ELSE ""
        env == [k \in DOMAIN os_environ \cup {"PYTHONPATH"} |->
                  IF k = "PYTHONPATH" THEN SrcPath \o ";" \o old
                  ELSE os_environ[k]]
    IN  [env |-> env, os_environ |-> env]

\* env = dict(os.environ); env["PYTHONPATH"] = str(src_path) + ";" + env.get(...)
\* env is what the child gets, os_environ what os.environ is afterwards.
ChildEnv(os_environ) ==
    LET old == IF "PYTHONPATH" \in DOMAIN os_environ
               THEN os_environ["PYTHONPATH"] ELSE ""
        env == [k \in DOMAIN os_environ \cup {"PYTHONPATH"} |->
                  IF k = "PYTHONPATH" THEN SrcPath \o ";" \o old
                  ELSE os_environ[k]]
    IN  [env |-> env, os_environ |-> os_environ]

\* mutant: the failure line without the code
ResultLineNoCode(returncode) ==
    IF returncode = 0 THEN MsgDone ELSE MsgFailed

\* the line printed for result.returncode
ResultLine(returncode) ==
    IF returncode = 0 THEN MsgDone ELSE MsgFailed \o IntStr(returncode)

\* mutant: return result.returncode
ReturnValueCode(returncode) == PyInt(returncode)

\* the value of the call: the function has no return statement
ReturnValue(returncode) == None

\* no child process yet
NoChild ==
    [launches |-> 0, running |-> FALSE, exited |-> FALSE, argv |-> <<>>,
     env |-> [k \in {} |-> ""], returncode |-> 0]

\* ret before the function has returned
NotReturned == [t |-> "pending"]

---------------------------------------------------------------------------
(* The requests the model draws from *)

\* kwargs entries a caller writes beyond the fixed samples
MaxKw == 1

\* the child's exit codes are -1..MaxExit (-1: killed by signal 1)
MaxExit == 1

ExitCodes == -1..MaxExit

\* the history keeps up to MaxLog commands per watched request
MaxLog == 2

Urls == {"https://b23.tv/BV1"}

OutputDirs == { <<"downloads">>, <<"downloads", "collection">> }

EpisodesValues == {None, PyStr(""), PyStr("1-3"), PyStr("--overwrite")}

\* values a caller may give to each keyword; "quality" (and "retries"
\* below) are names the function does not know
KwValues(k) ==
    CASE k = "video_quality"  -> {PyInt(0), PyInt(80)}
      [] k = "audio_quality"  -> {PyInt(30280)}
      [] k = "num_workers"    -> {PyBool(FALSE)}
      [] k = "danmaku_format" -> {PyStr("ass")}
      [] k = "proxy"          -> {None, PyStr("")}
      [] k = "sessdata"       -> {PyStr("--proxy")}
      [] k = "vcodec"         -> {PyStr("--episodes")}
      [] k = "acodec"         -> {PyStr("--overwrite")}
      [] k = "overwrite"      -> {None, PyBool(FALSE), PyBool(TRUE)}
      [] k = "quality"        -> {PyInt(80)}

KwNames ==
    {"video_quality", "audio_quality", "num_workers", "danmaku_format",
     "proxy", "sessdata", "vcodec", "acodec", "overwrite", "quality"}

KwPairs == UNION { { <<k, v>> : v \in KwValues(k) } : k \in KwNames }

DistinctNames(kw) ==
    \A a, b \in 1..Len(kw) : a # b => kw[a][1] # kw[b][1]

ShortKwargs ==
    { kw \in UNION { [1..n -> KwPairs] : n \in 0..MaxKw } : DistinctNames(kw) }

\* calls that give every keyword at once, in three different orders
FullKwargsForward ==
    << <<"video_quality", PyInt(80)>>, <<"audio_quality", PyInt(30280)>>,
         <<"num_workers", PyInt(8)>>, <<"danmaku_format", PyStr("ass")>>,
         <<"proxy", PyStr("auto")>>, <<"sessdata", PyStr("--proxy")>>,
         <<"vcodec", PyStr("avc:copy")>>, <<"acodec", PyStr("mp4a:copy")>>,
         <<"overwrite", PyBool(TRUE)>>, <<"quality", PyInt(80)>> >>

FullKwargs ==
    { FullKwargsForward,
      << <<"quality", PyInt(80)>>, <<"overwrite", PyBool(TRUE)>>,
         <<"acodec", PyStr("mp4a:copy")>>, <<"vcodec", PyStr("avc:copy")>>,
         <<"sessdata", PyStr("--proxy")>>, <<"proxy", PyStr("auto")>>,
         <<"danmaku_format", PyStr("ass")>>, <<"num_workers", PyInt(8)>>,
         <<"audio_quality", PyInt(30280)>>, <<"video_quality", PyInt(80)>> >>,
      << <<"proxy", PyStr("")>>, <<"overwrite", PyBool(FALSE)>>,
         <<"video_quality", PyInt(0)>>, <<"acodec", PyStr("flac:copy")>>,
         <<"retries", PyInt(3)>>, <<"audio_quality", None>>,
         <<"vcodec", PyStr("hevc:copy")>>, <<"num_workers", PyBool(FALSE)>>,
         <<"sessdata", PyStr("")>>, <<"danmaku_format", PyStr("xml")>> >> }

KwargsValues == ShortKwargs \cup FullKwargs

Requests ==
    [url : Urls, output_dir : OutputDirs, batch : BOOLEAN,
     episodes : EpisodesValues, kwargs : KwargsValues]

\* the requests whose commands the history keeps
Watched ==
    { r \in Requests :
        /\ r.batch
        /\ r.episodes = PyStr("1-3")
        /\ r.kwargs \in {<<>>, FullKwargsForward} }

\* os.environ before the first call
Environs ==
    { [PATH |-> "/usr/bin"],
      [PATH |-> "/usr/bin", PYTHONPATH |-> "/opt/lib"] }

Request == [url |-> url, output_dir |-> output_dir, batch |-> batch,
            episodes |-> episodes, kwargs |-> kwargs]

---------------------------------------------------------------------------
(* The steps of one invocation *)

Finished == pc \in {"done", "mkdir_error", "launch_error"}

\* the caller calls download_bilibili_video(**r); its first statement, the
\* mkdir, succeeds or raises
Call(r) ==
    /\ pc = "idle"
    /\ url' = r.url
    /\ output_dir' = r.output_dir
    /\ batch' = r.batch
    /\ episodes' = r.episodes
    /\ kwargs' = r.kwargs
    /\ cmd' = <<>>
    /\ stdout' = <<>>
    /\ child' = NoChild
    /\ ret' = NotReturned
    /\ \E o \in MkdirOutputDir(fs, r.output_dir) :
         /\ fs' = o.fs
         /\ pc' = IF o.ok THEN "dir_ok" ELSE "mkdir_error"
    /\ UNCHANGED <<environ, log>>

\* cmd is built and the progress lines are printed
Build ==
    /\ pc = "dir_ok"
    /\ LET c == BuildCmd(url, DirStr(output_dir), batch, episodes, kwargs)
       IN  /\ cmd' = c
           /\ stdout' = stdout \o Progress(url, DirStr(output_dir), batch,
                                           episodes, c)
           /\ log' = IF Request \in DOMAIN log /\ Len(log[Request]) < MaxLog
                     THEN [log EXCEPT ![Request] = Append(@, c)]
                     ELSE log
    /\ pc' = "built"
    /\ UNCHANGED <<url, output_dir, batch, episodes, kwargs, fs, environ,
                   child, ret>>

\* subprocess.run starts the child with env
Launch ==
    /\ pc = "built"
    /\ LET e == ChildEnv(environ)
       IN  /\ environ' = e.os_environ
           /\ child' = [child EXCEPT !.launches = @ + 1, !.running = TRUE,
                                     !.argv = cmd, !.env = e.env]
    /\ pc' = "running"
    /\ UNCHANGED <<url, output_dir, batch, episodes, kwargs, cmd, stdout, fs,
                   ret, log>>

\* subprocess.run cannot start the child: the OSError propagates
LaunchFail ==
    /\ pc = "built"
    /\ pc' = "launch_error"
    /\ UNCHANGED <<url, output_dir, batch, episodes, kwargs, cmd, stdout, fs,
                   environ, child, ret, log>>

\* the child exits with code c; the result line is printed and the
\* function returns
ChildExit(c) ==
    /\ pc = "running"
    /\ child' = [child EXCEPT !.running = FALSE, !.exited = TRUE,
                              !.returncode = c]
    /\ stdout' = Append(stdout, ResultLine(c))
    /\ ret' = ReturnValue(c)
    /\ pc' = "done"
    /\ UNCHANGED <<url, output_dir, batch, episodes, kwargs, cmd, fs, environ,
                   log>>

\* the call is over (it returned or raised): its frame is gone and the
\* caller may call again
Return ==
    /\ Finished
    /\ pc' = "idle"
    /\ url' = ""
    /\ output_dir' = <<>>
    /\ batch' = FALSE
    /\ episodes' = None
    /\ kwargs' = <<>>
    /\ cmd' = <<>>
    /\ stdout' = <<>>
    /\ child' = NoChild
    /\ ret' = NotReturned
    /\ UNCHANGED <<fs, environ, log>>

InitCommon ==
    /\ pc = "idle"
    /\ url = ""
    /\ output_dir = <<>>
    /\ batch = FALSE
    /\ episodes = None
    /\ kwargs = <<>>
    /\ cmd = <<>>
    /\ stdout = <<>>
    /\ fs \in { {}, {<<"downloads">>} }
    /\ environ \in Environs
    /\ child = NoChild
    /\ ret = NotReturned

Init == InitCommon /\ log = [r \in {} |-> <<>>]

Next ==
    \/ \E r \in Requests : Call(r)
    \/ Build
    \/ Launch
    \/ LaunchFail
    \/ \E c \in ExitCodes : ChildExit(c)
    \/ Return

Spec == Init /\ [][Next]_vars

\* the same program, called with the watched requests only and keeping the
\* history of the commands it built
InitRepeat == InitCommon /\ log = [r \in Watched |-> <<>>]

NextRepeat ==
    \/ \E r \in Watched : Call(r)
    \/ Build
    \/ Launch
    \/ LaunchFail
    \/ \E c \in ExitCodes : ChildExit(c)
    \/ Return

SpecRepeat == InitRepeat /\ [][NextRepeat]_vars

---------------------------------------------------------------------------
(* What the properties below speak of *)

\* cmd has been built in the current invocation
Built == pc \in {"built", "running", "done", "launch_error"}

\* the positions of token tok in command c
Positions(c, tok) == { i \in 1..Len(c) : c[i] = tok }

\* the positions where tok is immediately followed by val
PairPositions(c, tok, val) ==
    { i \in 1..(Len(c) - 1) : c[i] = tok /\ c[i + 1] = val }

\* the caller gave name with a value that is not None
Given(kw, name) == \E j \in 1..Len(kw) : kw[j][1] = name /\ kw[j][2] # None

GivenValue(kw, name) ==
    (CHOOSE pair \in { kw[j] : j \in 1..Len(kw) } : pair[1] = name)[2]

MappedNames ==
    {"video_quality", "audio_quality", "num_workers", "danmaku_format",
     "proxy", "sessdata", "vcodec", "acodec"}

FlagOf(name) ==
    CASE name = "video_quality"  -> "--video-quality"
      [] name = "audio_quality"  -> "--audio-quality"
      [] name = "num_workers"    -> "--num-workers"
      [] name = "danmaku_format" -> "--danmaku-format"
      [] name = "proxy"          -> "--proxy"
      [] name = "sessdata"       -> "--sessdata"
      [] name = "vcodec"         -> "--vcodec"
      [] name = "acodec"         -> "--acodec"

\* the strings of the command that the caller wrote: the url, the output
\* directory, the episodes and the values of the mapped options
CallerStrings ==
    {url, DirStr(output_dir)}
    \cup (IF episodes # None THEN {episodes.s} ELSE {})
    \cup { Str(GivenValue(kwargs, n)) : n \in { m \in MappedNames : Given(kwargs, m) } }

OverwriteAsked ==
    \E j \in 1..Len(kwargs) : kwargs[j][1] = "overwrite" /\ Truthy(kwargs[j][2])

ExpectedOption(name) ==
    IF Given(kwargs, name)
    THEN <<FlagOf(name), Str(GivenValue(kwargs, name))>>
    ELSE <<>>

ExpectedOptions ==
    ExpectedOption("video_quality") \o ExpectedOption("audio_quality")
    \o ExpectedOption("num_workers") \o ExpectedOption("danmaku_format")
    \o ExpectedOption("proxy") \o ExpectedOption("sessdata")
    \o ExpectedOption("vcodec") \o ExpectedOption("acodec")

\* the command of the construction order, with --episodes under condition e
ExpectedCommand(e) ==
    <<PythonExe, "-m", "yutto", url>> \o <<"--dir", DirStr(output_dir)>>
    \o (IF batch THEN <<"--batch">> ELSE <<>>)
    \o (IF e THEN <<"--episodes", episodes.s>> ELSE <<>>)
    \o ExpectedOptions
    \o (IF OverwriteAsked THEN <<"--overwrite">> ELSE <<>>)

---------------------------------------------------------------------------
(* C1 *)

\* C1 as stated: the command is the base invocation, --dir output_dir,
\* --batch iff batch, --episodes <episodes> whenever episodes is supplied,
\* the mapped options in the fixed order, --overwrite last, and nothing else.
C1_AsStated == Built => cmd = ExpectedCommand(episodes # None)

\* C1, amended: the command is the base invocation [python, -m, yutto, url],
\* then --dir output_dir, then --batch iff batch, then --episodes <episodes>
\* iff episodes is a non-empty string, then the mapped options in the fixed
\* order whatever the order the caller wrote them in, then --overwrite iff
\* the overwrite option is truthy, and no other token.
C1_CommandOrder == Built => cmd = ExpectedCommand(episodes # None /\ episodes.s # "")

\* an invocation that gave every option in reverse order was launched
C1_Witness ==
    /\ pc = "running"
    /\ batch
    /\ episodes = PyStr("1-3")
    /\ Len(kwargs) = 10
    /\ kwargs[1][1] = "quality"
    /\ kwargs[10][1] = "video_quality"
    /\ child.argv = cmd

---------------------------------------------------------------------------
(* C2 *)

\* C2 as stated: for each mapped key, the command holds the key's flag
\* immediately followed by the stringified value exactly once when the key
\* is given with a non-null value, and does not hold the flag otherwise.
C2_AsStated ==
    Built =>
      \A n \in MappedNames :
        IF Given(kwargs, n)
        THEN Cardinality(PairPositions(cmd, FlagOf(n), Str(GivenValue(kwargs, n)))) = 1
        ELSE Positions(cmd, FlagOf(n)) = {}

\* C2, amended: for each mapped key whose flag is not itself one of the
\* strings the caller wrote (url, output_dir, episodes, an option value),
\* the flag occurs in the command exactly once, immediately followed by
\* str(value), when the key is given with a value that is not None (0, ""
\* and False included), and does not occur when the key is absent or None.
C2_MappedOptions ==
    Built =>
      \A n \in MappedNames :
        FlagOf(n) \notin CallerStrings =>
          IF Given(kwargs, n)
          THEN /\ Cardinality(Positions(cmd, FlagOf(n))) = 1
               /\ PairPositions(cmd, FlagOf(n), Str(GivenValue(kwargs, n)))
                    = Positions(cmd, FlagOf(n))
          ELSE Positions(cmd, FlagOf(n)) = {}

\* a command was built from falsy values that are not None
C2_Witness ==
    /\ pc = "built"
    /\ Given(kwargs, "num_workers") /\ GivenValue(kwargs, "num_workers") = PyBool(FALSE)
    /\ Given(kwargs, "video_quality") /\ GivenValue(kwargs, "video_quality") = PyInt(0)
    /\ Given(kwargs, "proxy") /\ GivenValue(kwargs, "proxy") = PyStr("")
    /\ KwHas(kwargs, "audio_quality") /\ ~Given(kwargs, "audio_quality")
    /\ PairPositions(cmd, "--num-workers", "False") # {}
    /\ PairPositions(cmd, "--video-quality", "0") # {}
    /\ PairPositions(cmd, "--proxy", "") # {}

---------------------------------------------------------------------------
(* C3 *)

RecognizedNames == MappedNames \cup {"overwrite"}

IsRecognized(pair) == pair[1] \in RecognizedNames

\* C3: keys outside the recognized set add no token and raise no error: the
\* command is the one built from the same call without those keys, the
\* invocation is not in an error state for having built it, and the child
\* can be launched and, once launched, runs that command.
C3_UnknownKeysIgnored ==
    /\ Built =>
         cmd = BuildCmd(url, DirStr(output_dir), batch, episodes,
                        SelectSeq(kwargs, IsRecognized))
    /\ pc = "dir_ok" => ENABLED Build
    /\ pc = "built" => ENABLED Launch
    /\ child.launches > 0 =>
         child.argv = BuildCmd(url, DirStr(output_dir), batch, episodes,
                               SelectSeq(kwargs, IsRecognized))

\* a child runs for a call that gave a key the function does not know
C3_Witness ==
    /\ pc = "running"
    /\ child.running
    /\ \E j \in 1..Len(kwargs) : kwargs[j][1] \notin RecognizedNames
    /\ Len(kwargs) = 1

---------------------------------------------------------------------------
(* C4 *)

\* C4 as stated: without a truthy overwrite the command never contains
\* --overwrite; with one it contains --overwrite exactly once, as its last
\* token, whatever the other inputs are.
C4_AsStated ==
    Built =>
      IF OverwriteAsked
      THEN Positions(cmd, "--overwrite") = {Len(cmd)}
      ELSE Positions(cmd, "--overwrite") = {}

\* C4, amended: when overwrite is truthy the last token of the command is
\* --overwrite; and provided none of the strings the caller wrote (url,
\* output_dir, episodes, an option value) is itself "--overwrite", the
\* command contains --overwrite exactly once when overwrite is truthy and
\* not at all when overwrite is falsy, None or absent.
C4_OverwriteLast ==
    Built =>
      /\ OverwriteAsked => cmd[Len(cmd)] = "--overwrite"
      /\ "--overwrite" \notin CallerStrings =>
           IF OverwriteAsked
           THEN Positions(cmd, "--overwrite") = {Len(cmd)}
           ELSE Positions(cmd, "--overwrite") = {}

\* a command with batch, episodes and options ends in the one --overwrite
C4_Witness ==
    /\ pc = "built"
    /\ OverwriteAsked
    /\ batch
    /\ Truthy(episodes)
    /\ Len(kwargs) > 1
    /\ "--overwrite" \notin CallerStrings
    /\ Positions(cmd, "--overwrite") = {Len(cmd)}

---------------------------------------------------------------------------
(* C5 *)

EpisodesAt == IF batch THEN 8 ELSE 7

---------------------------------------------------------------------------
(* C6 *)

\* every line the function can print for an exit code
ResultLines == {MsgDone} \cup { MsgFailed \o IntStr(c) : c \in ExitCodes }

ResultPositions == { i \in 1..Len(stdout) : stdout[i] \in ResultLines }

\* C6: an invocation starts the child once at most and, when it gets to
\* subprocess.run, exactly once; nothing is printed about the result while
\* the child runs; when the child has exited with 0 the completion line, and
\* with any other code c the failure line with the number c, is the one
\* result line printed, and it is the last line; the invocation then has
\* returned and has not raised, and the child is not started again.
C6_ExitReported ==
    /\ child.launches <= 1
    /\ pc \in {"idle", "dir_ok", "built", "mkdir_error", "launch_error"} =>
         child.launches = 0
    /\ pc = "running" =>
         child.launches = 1 /\ child.running /\ ResultPositions = {}
    /\ child.exited => pc = "done"
    /\ pc = "done" =>
         /\ child.launches = 1 /\ child.exited /\ ~child.running
         /\ ResultPositions = {Len(stdout)}
         /\ stdout[Len(stdout)] =
              IF child.returncode = 0 THEN MsgDone
              ELSE MsgFailed \o IntStr(child.returncode)

\* the child exited with code 1 and the failure line says 1
C6_Witness ==
    /\ pc = "done"
    /\ child.returncode = 1
    /\ child.launches = 1
    /\ stdout[Len(stdout)] = MsgFailed \o "1"

---------------------------------------------------------------------------
(* C7 *)

\* C7 as stated: after the child exits with a code c other than 0, the
\* value the function returns lets the caller read c.
C7_AsStated ==
    (pc = "done" /\ child.returncode # 0) => ret = PyInt(child.returncode)

\* C7, amended: after the child exits with a code c other than 0 the
\* function returns None; c is to be read only in the failure line it
\* printed.
C7_ReturnsNone ==
    pc = "done" =>
      /\ ret = None
      /\ child.returncode # 0 =>
           stdout[Len(stdout)] = MsgFailed \o IntStr(child.returncode)

\* the function returned after the child was killed (code -1)
C7_Witness == pc = "done" /\ child.returncode = -1 /\ ret = None

---------------------------------------------------------------------------
(* C8 *)

\* C8: once the mkdir is past, the output directory and all its parents
\* exist, and they do in every state where the command is built or the
\* child started; the mkdir comes before the command is built; it raises
\* only for a directory that did not exist, and then no command is built,
\* no child is started and nothing is printed.
C8_DirectoryFirst ==
    /\ pc \in {"dir_ok", "built", "running", "done", "launch_error"} =>
         Prefixes(output_dir) \subseteq fs
    /\ pc = "dir_ok" => cmd = <<>> /\ child.launches = 0 /\ stdout = <<>>
    /\ child.launches > 0 => Prefixes(output_dir) \subseteq fs
    /\ pc = "mkdir_error" =>
         /\ output_dir \notin fs
         /\ cmd = <<>>
         /\ child.launches = 0
         /\ stdout = <<>>
         /\ ret = NotReturned

\* a child runs in downloads/collection, made with its parent
C8_Witness ==
    /\ pc = "running"
    /\ output_dir = <<"downloads", "collection">>
    /\ {<<"downloads">>, <<"downloads", "collection">>} \subseteq fs

---------------------------------------------------------------------------
(* C9 *)

---------------------------------------------------------------------------
(* C10 *)

\* the environment a child is to get from the caller's environment e
ExpectedChildEnv(e) ==
    ("PYTHONPATH" :> (SrcPath \o ";" \o
                        (IF "PYTHONPATH" \in DOMAIN e THEN e["PYTHONPATH"] ELSE "")))
    @@ e

\* C10: no step changes the environment of the calling process, and every
\* child gets the caller's environment with PYTHONPATH set to the source
\* path, ";" and the caller's value (empty when it has none): the source
\* path is there once, however many calls came before.
C10_EnvironmentScoped ==
    /\ [][environ' = environ]_vars
    /\ [](child.launches > 0 => child.env = ExpectedChildEnv(environ))

\* a child of a later call runs with the source path before the caller's
\* PYTHONPATH
C10_Witness ==
    /\ pc = "running"
    /\ environ = [PATH |-> "/usr/bin", PYTHONPATH |-> "/opt/lib"]
    /\ child.env["PYTHONPATH"] = "/repo/src;/opt/lib"
    /\ child.env["PATH"] = "/usr/bin"
    /\ \E q \in DOMAIN log : q # Request /\ Len(log[q]) = 2

===========================================================================
